---- MODULE Spec2Model ----
(***************************************************************************)
(* Model of the layered attestation APB (src/src/apbs/layered_att_apb.c):  *)
(* the orchestrator apb_execute, the measurement dispatcher                *)
(* measure_variable_shim and the fork chain of execute_sign_send_pipeline. *)
(* Process 0 is the process that called apb_execute; processes 1..4 are    *)
(* the processes forked by fork_and_buffer_async_asp.                      *)
(* The netstatraw6 worker (src/src/asps/netstatraw6asp.c) is a program of  *)
(* its own; its line parser has its own specification, SpecNetstat.        *)
(***************************************************************************)
EXTENDS Integers, Sequences, FiniteSets, TLC

\* ------------------------------------------------------------------ bounds
MaxArgc == 3
\* dispatches the evaluation engine makes: in a whole run, and in the dispatcher's own
\* specification
MaxRunDispatch == 1
MaxDispatch == 2
\* lines of /proc/net/raw6 after the header line
MaxLines == 1

\* --------------------------------------------------------- program values
NULL == "NULL"
ENOENT == 2
EIO == 5
EINVAL == 22
STDIN_FILENO == 0
PEERCHAN == 9
CreateConArgsLen == 8
CreateConArgc == 10

Procs == 0 .. 4

PipelineAsps == {"serialize_graph_asp", "compress_asp", "encrypt_asp",
                 "create_measurement_contract_asp", "send_asp"}
MeasurementAsps == {"kernel_msmt_asp", "send_execute_tcp_asp", "procopenfiles"}
AllAsps == PipelineAsps \cup MeasurementAsps

\* the registries handed to the APB: complete, or lacking one worker
AspRegistries == {AllAsps} \cup {AllAsps \ {a} : a \in PipelineAsps \cup {"kernel_msmt_asp"}}

ArgKeys == {"@_0", "@_t", "@_x"}
PlaceIds == {"p1", "p2", "absent"}

MTypes == {"kernel_measurement_type", "blob_measurement_type", "system_measurement_type"}

\* measurement variables, told apart by the address they carry
Vars == {"v_0", "v_t", "v_x", "v_file", "v_noaddr"}

Payloads == {"AABB"}

VARIABLES
    pc,            \* program location of every process
    argc, i,       \* apb_execute: argument count and loop index
    ret_val,       \* ret_val of apb_execute (process 0)
    apb_asps,      \* global apb_asps
    g_dom_z_info, g_dom_t_info,
    g_cred,        \* g_certfile, g_keyfile, g_keypass, g_nonce, g_tpmpass, g_akctx, g_sign_tpm
    g_scen,        \* global g_scen
    scen,          \* the scenario object: contract, size
    res,           \* resources acquired by apb_execute
    graph,         \* the measurement graph: node presence and data per variable
    mv,            \* locals of the running measure_variable_shim call
    hist,          \* observations of the run and of the current dispatch
    esp,           \* per process locals of execute_sign_send_pipeline
    plog,          \* observations of the pipeline: stages spawned, send runs, exits
    ns             \* the netstatraw6 worker: its place, the line read, the lines chunked

vars == <<pc, argc, i, ret_val, apb_asps, g_dom_z_info, g_dom_t_info, g_cred,
          g_scen, scen, res, graph, mv, hist, esp, plog, ns>>

\* ------------------------------------------------- external collaborators
\* find_asp: resolve a worker by name in a registry
find_asp(asps, name) == IF name \in asps THEN name ELSE NULL

\* the place directory: symbolic identifier -> (address, port); absence is an error
PlaceDirectory ==
    [p \in {"p1", "p2"} |->
        IF p = "p1" THEN [addr |-> "127.0.0.1", port |-> "9000"]
                    ELSE [addr |-> "127.0.0.1", port |-> "9001"]]

\* a place_info pointer that is NULL
NoPlace == [addr |-> NULL, port |-> NULL]

\* get_place_information: status and the place info it stores through its out pointer
get_place_information(value) ==
    IF value \in DOMAIN PlaceDirectory
    THEN [rc |-> 0, info |-> PlaceDirectory[value]]
    ELSE [rc |-> -1, info |-> NoPlace]

\* ------------------------------------------------------------ initial state
CredFields == {"certfile", "keyfile", "keypass", "nonce", "tpmpass", "akctx", "sign_tpm"}

\* an address pointer and a marshalled-data pointer that are NULL
NoAddress == [space |-> NULL, attester |-> NULL, resource |-> NULL]
NoData == [type |-> NULL, value |-> NULL]

NoMv == [var |-> NULL, mtype |-> NULL, asp |-> NULL, n |-> NULL, rc |-> 0,
         va |-> NoAddress, addr |-> NULL, port |-> NULL,
         contract |-> NULL, con_len |-> 0,
         tmp_contract |-> NULL, tmp_con_len |-> 0,
         blob |-> NULL, md |-> NoData]

EmptyGraph == [v \in Vars |-> [present |-> FALSE, data |-> {}]]

NoDispatch == [active |-> FALSE, calls |-> {}, had_data |-> FALSE, redo |-> FALSE,
               graph_pre |-> EmptyGraph, contract_pre |-> <<NULL, 0>>, swapped |-> FALSE,
               verified |-> <<NULL, 0>>, exec_args |-> <<>>, err |-> NULL]

NoEsp == [ret_val |-> -1, fb_fd |-> -1, graph_path |-> NULL, workdir |-> NULL,
          resume |-> NULL,
          partner_cert |-> NULL, serialize_args |-> <<>>, encrypt_args |-> <<>>,
          create_con_args |-> [k \in 0 .. (CreateConArgc - 1) |-> "unset"]]

\* the netstatraw6 worker is not running
NoLine == [local_address |-> NULL, local_port |-> <<>>, rem_address |-> NULL,
           rem_port |-> <<>>, state |-> NULL, uid |-> <<>>, inode |-> <<>>]
NoNetstatLine == [local_addr |-> <<>>, rem_addr |-> <<>>, State |-> NULL, uid |-> 0,
                  inode |-> 0]
NoNetstat == [pc |-> "idle", read |-> 0, line |-> NoLine, ret |-> NoNetstatLine,
              lines |-> <<>>]

\* the directory lookups made so far for each place key, in the order they were made
NoLookups == [k \in {"@_0", "@_t"} |-> <<>>]

Init ==
    /\ pc = [p \in Procs |-> IF p = 0 THEN "apb_start" ELSE "none"]
    /\ argc \in 0 .. MaxArgc
    /\ i = 0
    /\ ret_val = -1
    /\ apb_asps = {}
    /\ g_dom_z_info = NoPlace
    /\ g_dom_t_info = NoPlace
    /\ g_cred = [f \in CredFields |-> NULL]
    /\ g_scen = NULL
    /\ scen = [contract |-> "execute_contract", size |-> 4,
               partner_cert |-> "unread", workdir |-> "unread"]
    /\ res = [mspec |-> "none", graph |-> "none", creds |-> "none",
              dom_z |-> "none", dom_t |-> "none"]
    /\ graph = EmptyGraph
    /\ mv = NoMv
    /\ hist = [lookups |-> NoLookups, ignored |-> {}, incomplete |-> FALSE,
               budget |-> MaxRunDispatch, dispatched |-> 0, failed |-> 0, remote_ok |-> {},
               evaluated |-> FALSE, pipelines |-> 0, d |-> NoDispatch]
    /\ esp = [p \in Procs |-> NoEsp]
    /\ plog = [spawned |-> <<>>, spawn_failed |-> {}, worker_failed |-> {},
               sends |-> <<>>, exits |-> [p \in Procs |-> -1], returned |-> {},
               cc_indices |-> {}, next_fd |-> 3]
    /\ ns = NoNetstat

\* -------------------------------------------------------------- apb_execute
\* lines 487-490: the argument count must be exactly two
APB_CheckArgc ==
    /\ pc[0] = "apb_start"
    /\ IF argc # 2
       THEN /\ ret_val' = -1
            /\ pc' = [pc EXCEPT ![0] = "apb_done"]
       ELSE /\ pc' = [pc EXCEPT ![0] = "apb_register"]
            /\ UNCHANGED ret_val
    /\ UNCHANGED <<ns, argc, i, apb_asps, g_dom_z_info, g_dom_t_info, g_cred, g_scen,
                   scen, res, graph, mv, hist, esp, plog>>

\* lines 492-496: register_types, then take the APB's worker registry
APB_RegisterTypes ==
    /\ pc[0] = "apb_register"
    /\ \E r \in {-1, 0} : \E asps \in AspRegistries :
          IF r < 0
          THEN /\ ret_val' = r
               /\ pc' = [pc EXCEPT ![0] = "apb_done"]
               /\ UNCHANGED apb_asps
          ELSE /\ ret_val' = r
               /\ apb_asps' = asps
               /\ pc' = [pc EXCEPT ![0] = "apb_args"]
    /\ UNCHANGED <<ns, argc, i, g_dom_z_info, g_dom_t_info, g_cred, g_scen,
                   scen, res, graph, mv, hist, esp, plog>>

\* no occurrence of a key counts as a duplicate: the last one wins
AlreadyResolved_Never(info) == FALSE

\* lines 501 and 514: the place of this key was resolved by an earlier argument
AlreadyResolved(info) == info # NoPlace

\* lines 499-530: one iteration of the argument loop on arg_list[i] = (key, value)
APB_ProcessArg ==
    /\ pc[0] = "apb_args"
    /\ i < argc
    /\ \E key \in ArgKeys : \E value \in PlaceIds :
         LET r == get_place_information(value) IN
         CASE key = "@_0" /\ AlreadyResolved(g_dom_z_info) ->
                /\ hist' = [hist EXCEPT !.ignored = @ \cup {<<key, value>>}]
                /\ i' = i + 1
                /\ UNCHANGED <<ret_val, g_dom_z_info, g_dom_t_info, res, pc>>
           [] key = "@_0" /\ ~AlreadyResolved(g_dom_z_info) ->
                /\ hist' = [hist EXCEPT !.lookups[key] = Append(@, value)]
                /\ ret_val' = r.rc
                /\ g_dom_z_info' = r.info
                /\ res' = [res EXCEPT !.dom_z = IF r.rc = 0 THEN "held" ELSE @]
                /\ IF r.rc < 0
                   THEN pc' = [pc EXCEPT ![0] = "apb_place_arg_err"] /\ UNCHANGED i
                   ELSE i' = i + 1 /\ UNCHANGED pc
                /\ UNCHANGED g_dom_t_info
           [] key = "@_t" /\ AlreadyResolved(g_dom_t_info) ->
                /\ hist' = [hist EXCEPT !.ignored = @ \cup {<<key, value>>}]
                /\ i' = i + 1
                /\ UNCHANGED <<ret_val, g_dom_z_info, g_dom_t_info, res, pc>>
           [] key = "@_t" /\ ~AlreadyResolved(g_dom_t_info) ->
                /\ hist' = [hist EXCEPT !.lookups[key] = Append(@, value)]
                /\ ret_val' = r.rc
                /\ g_dom_t_info' = r.info
                /\ res' = [res EXCEPT !.dom_t = IF r.rc = 0 THEN "held" ELSE @]
                /\ IF r.rc < 0
                   THEN pc' = [pc EXCEPT ![0] = "apb_place_arg_err"] /\ UNCHANGED i
                   ELSE i' = i + 1 /\ UNCHANGED pc
                /\ UNCHANGED g_dom_z_info
           [] OTHER ->
                /\ i' = i + 1
                /\ UNCHANGED <<ret_val, g_dom_z_info, g_dom_t_info, res, pc, hist>>
    /\ UNCHANGED <<ns, argc, apb_asps, g_cred, g_scen, scen, graph, mv, esp, plog>>

\* lines 532-535: both places must be resolved once the loop is over
APB_CheckPlaces ==
    /\ pc[0] = "apb_args"
    /\ i >= argc
    /\ IF g_dom_z_info = NoPlace \/ g_dom_t_info = NoPlace
       THEN /\ pc' = [pc EXCEPT ![0] = "apb_place_arg_err"]
            /\ hist' = [hist EXCEPT !.incomplete = TRUE]
       ELSE /\ pc' = [pc EXCEPT ![0] = "apb_meas_spec"]
            /\ UNCHANGED hist
    /\ UNCHANGED <<ns, argc, i, ret_val, apb_asps, g_dom_z_info, g_dom_t_info, g_cred,
                   g_scen, scen, res, graph, mv, esp, plog>>

\* lines 537-541: get_target_meas_spec
APB_GetMeasSpec ==
    /\ pc[0] = "apb_meas_spec"
    /\ \E r \in {-1, 0} :
          /\ ret_val' = r
          /\ IF r # 0
             THEN pc' = [pc EXCEPT ![0] = "apb_place_arg_err"] /\ UNCHANGED res
             ELSE /\ pc' = [pc EXCEPT ![0] = "apb_graph"]
                  /\ res' = [res EXCEPT !.mspec = "held"]
    /\ UNCHANGED <<ns, argc, i, apb_asps, g_dom_z_info, g_dom_t_info, g_cred, g_scen,
                   scen, graph, mv, hist, esp, plog>>

\* lines 543-548: create_measurement_graph
APB_CreateGraph ==
    /\ pc[0] = "apb_graph"
    /\ \E ok \in BOOLEAN :
          IF ok
          THEN /\ res' = [res EXCEPT !.graph = "held"]
               /\ pc' = [pc EXCEPT ![0] = "apb_stage"]
               /\ UNCHANGED ret_val
          ELSE /\ ret_val' = -EIO
               /\ pc' = [pc EXCEPT ![0] = "apb_graph_err"]
               /\ UNCHANGED res
    /\ UNCHANGED <<ns, argc, i, apb_asps, g_dom_z_info, g_dom_t_info, g_cred, g_scen,
                   scen, graph, mv, hist, esp, plog>>

\* the scenarios' credential fields that are set: all, none, or certificate and key only
ScenCredSets == {CredFields, {}, {"certfile", "keyfile"}}

\* lines 550-590: the copy staged for one field; strdup fails for the field `failing`
StagedValue(f, isset, failing) ==
    IF f = failing THEN NULL
    ELSE IF f = "sign_tpm" THEN (IF isset THEN "1" ELSE "0")
    ELSE IF isset THEN f ELSE ""

\* lines 592-594: some staged buffer is missing
StagingFailed(cred) == \E f \in CredFields : cred[f] = NULL

\* g_scen is published first and the credentials are staged under it
APB_Stage_PublishFirst ==
    /\ pc[0] = "apb_stage"
    /\ IF g_scen = NULL
       THEN /\ g_scen' = "scen"
            /\ UNCHANGED <<g_cred, res, pc>>
       ELSE \E setf \in ScenCredSets : \E failing \in CredFields \cup {"none"} :
              LET cred == [f \in CredFields |-> StagedValue(f, f \in setf, failing)] IN
              /\ g_cred' = cred
              /\ res' = [res EXCEPT !.creds = "held"]
              /\ pc' = [pc EXCEPT ![0] = IF StagingFailed(cred) THEN "apb_str_alloc_err"
                                         ELSE "apb_measure"]
              /\ UNCHANGED g_scen
    /\ UNCHANGED <<ns, argc, i, ret_val, apb_asps, g_dom_z_info, g_dom_t_info,
                   scen, graph, mv, hist, esp, plog>>

\* lines 550-599: stage the credentials in the globals, then publish g_scen
APB_Stage ==
    /\ pc[0] = "apb_stage"
    /\ \E setf \in ScenCredSets : \E failing \in CredFields \cup {"none"} :
         LET cred == [f \in CredFields |-> StagedValue(f, f \in setf, failing)] IN
         /\ g_cred' = cred
         /\ res' = [res EXCEPT !.creds = "held"]
         /\ IF StagingFailed(cred)
            THEN /\ pc' = [pc EXCEPT ![0] = "apb_str_alloc_err"]
                 /\ UNCHANGED g_scen
            ELSE /\ g_scen' = "scen"
                 /\ pc' = [pc EXCEPT ![0] = "apb_measure"]
    /\ UNCHANGED <<ns, argc, i, ret_val, apb_asps, g_dom_z_info, g_dom_t_info,
                   scen, graph, mv, hist, esp, plog>>

\* the engine's failure sends the run to the cleanup
EvaluateOutcome_AbortOnFailure(rc) ==
    IF rc < 0 THEN "apb_str_alloc_err" ELSE "apb_pipeline"

\* lines 602-607: the result of evaluate_measurement_spec is not looked at, the
\* pipeline call follows
EvaluateOutcome(rc) == "apb_pipeline"

\* line 602 returns: evaluate_measurement_spec is over, its result is dropped
APB_EvaluateDone ==
    /\ pc[0] = "apb_measure"
    /\ hist' = [hist EXCEPT !.evaluated = TRUE]
    /\ \E rc \in {-1, 0} : pc' = [pc EXCEPT ![0] = EvaluateOutcome(rc)]
    /\ UNCHANGED <<ns, argc, i, ret_val, apb_asps, g_dom_z_info, g_dom_t_info, g_cred,
                   g_scen, scen, res, graph, mv, esp, plog>>

\* line 607: call execute_sign_send_pipeline(graph, scen, peerchan)
APB_CallPipeline ==
    /\ pc[0] = "apb_pipeline"
    /\ hist' = [hist EXCEPT !.pipelines = @ + 1]
    /\ pc' = [pc EXCEPT ![0] = "esp_entry"]
    /\ UNCHANGED <<ns, argc, i, ret_val, apb_asps, g_dom_z_info, g_dom_t_info, g_cred,
                   g_scen, scen, res, graph, mv, esp, plog>>

\* a release of a resource: of one never acquired it is a no-op
Release(st) == IF st = "held" THEN "freed" ELSE IF st = "freed" THEN "freed_twice" ELSE st

\* lines 609-618: str_alloc_err, free the staged buffers and destroy the graph
APB_StrAllocErr ==
    /\ pc[0] = "apb_str_alloc_err"
    /\ res' = [res EXCEPT !.creds = Release(@), !.graph = Release(@)]
    /\ pc' = [pc EXCEPT ![0] = "apb_graph_err"]
    /\ UNCHANGED <<ns, argc, i, ret_val, apb_asps, g_dom_z_info, g_dom_t_info, g_cred,
                   g_scen, scen, graph, mv, hist, esp, plog>>

\* graph_err frees the specification and returns without falling through
APB_GraphErr_NoFallThrough ==
    /\ pc[0] = "apb_graph_err"
    /\ res' = [res EXCEPT !.mspec = Release(@)]
    /\ pc' = [pc EXCEPT ![0] = "apb_done"]
    /\ UNCHANGED <<ns, argc, i, ret_val, apb_asps, g_dom_z_info, g_dom_t_info, g_cred,
                   g_scen, scen, graph, mv, hist, esp, plog>>

\* lines 620-621: graph_err, free the measurement specification
APB_GraphErr ==
    /\ pc[0] = "apb_graph_err"
    /\ res' = [res EXCEPT !.mspec = Release(@)]
    /\ pc' = [pc EXCEPT ![0] = "apb_place_arg_err"]
    /\ UNCHANGED <<ns, argc, i, ret_val, apb_asps, g_dom_z_info, g_dom_t_info, g_cred,
                   g_scen, scen, graph, mv, hist, esp, plog>>

\* lines 622-626: meas_spec_err / place_arg_err, free both place infos and return
APB_PlaceArgErr ==
    /\ pc[0] = "apb_place_arg_err"
    /\ res' = [res EXCEPT !.dom_z = Release(@), !.dom_t = Release(@)]
    /\ pc' = [pc EXCEPT ![0] = "apb_done"]
    /\ UNCHANGED <<ns, argc, i, ret_val, apb_asps, g_dom_z_info, g_dom_t_info, g_cred,
                   g_scen, scen, graph, mv, hist, esp, plog>>

\* ------------------------------------------------ graph and address space
\* the address recorded for a variable's node
VarAddress(v) ==
    CASE v = "v_0" -> [space |-> "dynamic_measurement_request", attester |-> "@_0",
                       resource |-> "hashes"]
      [] v = "v_t" -> [space |-> "dynamic_measurement_request", attester |-> "@_t",
                       resource |-> "app-list"]
      [] v = "v_x" -> [space |-> "dynamic_measurement_request", attester |-> "@_x",
                       resource |-> "app-list"]
      [] v = "v_file" -> [space |-> "file", attester |-> NULL, resource |-> NULL]
      [] OTHER -> NoAddress

\* measurement_node_get_address: a copy of the node's address, or NULL
measurement_node_get_address(g, n) == IF g[n].present THEN VarAddress(n) ELSE NoAddress

\* measurement_node_has_data: the node carries data of the type
measurement_node_has_data(g, n, mtype) == \E d \in g[n].data : d.type = mtype

\* measurement_graph_add_node: 1 when the node exists already, else 0 (added) or an error
measurement_graph_add_node(g, var, ok) ==
    IF g[var].present THEN [rc |-> 1, g |-> g, n |-> var]
    ELSE IF ok THEN [rc |-> 0, g |-> [g EXCEPT ![var].present = TRUE], n |-> var]
    ELSE [rc |-> -1, g |-> g, n |-> NULL]

\* measurement_node_add_data: attach data to a node
measurement_node_add_data(g, n, md) == [g EXCEPT ![n].data = @ \cup {md}]

\* ------------------------------------------------------ helpers, lines 73-168
\* the resolver without the check of the address space
get_measurement_request_addr_from_node_NoKindCheck(g, nid) ==
    LET address == measurement_node_get_address(g, nid) IN
    IF address = NoAddress THEN [rc |-> -EIO, va |-> NoAddress]
    ELSE [rc |-> 0, va |-> address]

\* lines 73-101: the typed request address of a node, or an error code
get_measurement_request_addr_from_node(g, nid) ==
    LET address == measurement_node_get_address(g, nid) IN
    IF address = NoAddress THEN [rc |-> -EIO, va |-> NoAddress]
    ELSE IF address.space # "dynamic_measurement_request" THEN [rc |-> -EINVAL, va |-> NoAddress]
    ELSE [rc |-> 0, va |-> address]

\* the lookup with the target place as the fallback for every other attester
get_target_channel_info_DefaultTarget(va, dom_z, dom_t) ==
    IF va.attester = "@_0" THEN [rc |-> 0, addr |-> dom_z.addr, port |-> dom_z.port]
    ELSE [rc |-> 0, addr |-> dom_t.addr, port |-> dom_t.port]

\* lines 103-124: the channel endpoint of the attester a request names
get_target_channel_info(va, dom_z, dom_t) ==
    IF va.attester = "@_0" THEN [rc |-> 0, addr |-> dom_z.addr, port |-> dom_z.port]
    ELSE IF va.attester = "@_t" THEN [rc |-> 0, addr |-> dom_t.addr, port |-> dom_t.port]
    ELSE [rc |-> -1, addr |-> NULL, port |-> NULL]

\* lines 133-144: the argument vector of the execute request
send_execute_args(addr, port, resource, cred) ==
    <<addr, port, resource, cred["certfile"], cred["keyfile"], cred["keypass"],
      cred["nonce"], cred["tpmpass"], cred["akctx"], cred["sign_tpm"]>>

\* select_asp: the generic selection, any measurement worker of the registry or none
select_asp(asps) == (asps \cap MeasurementAsps) \cup {NULL}

\* lines 157-168: kernel measurements go to the fixed worker, the rest to select_asp
select_asp_shim(mtype, asps) ==
    IF mtype = "kernel_measurement_type"
    THEN {find_asp(asps, "kernel_msmt_asp")}
    ELSE select_asp(asps)

\* the check that never finds a node measured
NodeNeedsMeasurement_Always(g, n, mtype) == TRUE

\* lines 214-217 and 239-242: the node must still be measured for this type
NodeNeedsMeasurement(g, n, mtype) == ~measurement_node_has_data(g, n, mtype)

\* the restore that puts the pointer back and leaves the received size
RestoreContract_SizeLost(sc, tmp_contract, tmp_con_len) ==
    [sc EXCEPT !.contract = tmp_contract]

\* lines 286-287: put the scenario's own contract back
RestoreContract(sc, tmp_contract, tmp_con_len) ==
    [sc EXCEPT !.contract = tmp_contract, !.size = tmp_con_len]

\* ----------------------------------------------------- measure_variable_shim
\* what stays as it is while the dispatcher runs
MvFrame == UNCHANGED <<ns, argc, i, ret_val, apb_asps, g_dom_z_info, g_dom_t_info,
                       g_cred, g_scen, res, esp, plog>>

\* the dispatcher leaves with the value rc
MvReturn(rc) == /\ mv' = [mv EXCEPT !.rc = rc]
                /\ pc' = [pc EXCEPT ![0] = "mv_return"]

\* lines 191-202: the engine calls the dispatcher on (var, mtype); select the worker
MV_Select ==
    /\ pc[0] = "apb_measure"
    /\ hist.dispatched < hist.budget
    /\ \E var \in Vars : \E mtype \in MTypes : \E asp \in select_asp_shim(mtype, apb_asps) :
         /\ hist' = [hist EXCEPT !.dispatched = @ + 1,
                                 !.d = [NoDispatch EXCEPT
                                          !.active = TRUE,
                                          !.had_data = measurement_node_has_data(graph, var, mtype),
                                          !.redo = <<var, mtype>> \in hist.remote_ok,
                                          !.graph_pre = graph,
                                          !.contract_pre = <<scen.contract, scen.size>>]]
         /\ IF asp = NULL
            THEN /\ mv' = [NoMv EXCEPT !.var = var, !.mtype = mtype, !.rc = -ENOENT]
                 /\ pc' = [pc EXCEPT ![0] = "mv_return"]
            ELSE /\ mv' = [NoMv EXCEPT !.var = var, !.mtype = mtype, !.asp = asp]
                 /\ pc' = [pc EXCEPT ![0] =
                              IF asp = "kernel_msmt_asp" THEN "mv_kernel_add"
                              ELSE IF asp = "send_execute_tcp_asp" THEN "mv_remote_add"
                              ELSE "mv_default"]
    /\ UNCHANGED <<scen, graph>>
    /\ MvFrame

\* lines 206-217: kernel branch, add or find the node, leave if it is measured already
MV_KernelAddNode ==
    /\ pc[0] = "mv_kernel_add"
    /\ \E ok \in BOOLEAN :
         LET r == measurement_graph_add_node(graph, mv.var, ok) IN
         /\ graph' = r.g
         /\ IF r.rc # 0 /\ r.rc # 1 THEN MvReturn(-1)
            ELSE IF ~NodeNeedsMeasurement(r.g, r.n, mv.mtype)
                 THEN /\ mv' = [mv EXCEPT !.n = r.n, !.rc = 0]
                      /\ pc' = [pc EXCEPT ![0] = "mv_return"]
                 ELSE /\ mv' = [mv EXCEPT !.n = r.n, !.rc = r.rc]
                      /\ pc' = [pc EXCEPT ![0] = "mv_kernel_run"]
    /\ UNCHANGED <<scen, hist>>
    /\ MvFrame

\* lines 219-228: run the kernel worker on (graph path, node id), return its status
MV_KernelRun ==
    /\ pc[0] = "mv_kernel_run"
    /\ \E rc \in {-1, 0, 1} :
         /\ hist' = [hist EXCEPT !.d.calls = @ \cup {"run_asp"}]
         /\ graph' = IF rc = 0
                     THEN measurement_node_add_data(graph, mv.n,
                              [type |-> "kernel_measurement_type", value |-> "kernel_data"])
                     ELSE graph
         /\ MvReturn(rc)
    /\ UNCHANGED scen
    /\ MvFrame

\* lines 231-242: remote branch, add or find the node, leave if it is measured already
MV_RemoteAddNode ==
    /\ pc[0] = "mv_remote_add"
    /\ \E ok \in BOOLEAN :
         LET r == measurement_graph_add_node(graph, mv.var, ok) IN
         /\ graph' = r.g
         /\ IF r.rc # 0 /\ r.rc # 1 THEN MvReturn(-1)
            ELSE IF ~NodeNeedsMeasurement(r.g, r.n, mv.mtype)
                 THEN /\ mv' = [mv EXCEPT !.n = r.n, !.rc = 0]
                      /\ pc' = [pc EXCEPT ![0] = "mv_return"]
                 ELSE /\ mv' = [mv EXCEPT !.n = r.n, !.rc = r.rc]
                      /\ pc' = [pc EXCEPT ![0] = "mv_get_addr"]
    /\ UNCHANGED <<scen, hist>>
    /\ MvFrame

\* lines 245-249: resolve the request address of the node
MV_GetRequestAddr ==
    /\ pc[0] = "mv_get_addr"
    /\ LET r == get_measurement_request_addr_from_node(graph, mv.n) IN
         IF r.rc < 0
         THEN /\ mv' = [mv EXCEPT !.rc = -1]
              /\ hist' = [hist EXCEPT !.d.err = IF r.rc = -EINVAL THEN "AddressKindMismatch"
                                                 ELSE "AddressUnavailable"]
              /\ pc' = [pc EXCEPT ![0] = "mv_return"]
         ELSE /\ mv' = [mv EXCEPT !.rc = r.rc, !.va = r.va]
              /\ pc' = [pc EXCEPT ![0] = "mv_chan_info"]
              /\ UNCHANGED hist
    /\ UNCHANGED <<scen, graph>>
    /\ MvFrame

\* lines 251-255: resolve the attester's place
MV_GetChannelInfo ==
    /\ pc[0] = "mv_chan_info"
    /\ LET r == get_target_channel_info(mv.va, g_dom_z_info, g_dom_t_info) IN
         IF r.rc < 0
         THEN /\ mv' = [mv EXCEPT !.rc = -1]
              /\ hist' = [hist EXCEPT !.d.err = "UnknownAttester"]
              /\ pc' = [pc EXCEPT ![0] = "mv_return"]
         ELSE /\ mv' = [mv EXCEPT !.rc = r.rc, !.addr = r.addr, !.port = r.port]
              /\ pc' = [pc EXCEPT ![0] = "mv_invoke"]
              /\ UNCHANGED hist
    /\ UNCHANGED <<scen, graph>>
    /\ MvFrame

\* lines 126-155 and 261-268: one execute request to the attester through run_asp_buffers
MV_InvokeSendExecute ==
    /\ pc[0] = "mv_invoke"
    /\ \E rc \in {-1, 0, 1} :
         /\ hist' = [hist EXCEPT
                       !.d.calls = @ \cup {"run_asp_buffers"},
                       !.d.exec_args = send_execute_args(mv.addr, mv.port, mv.va.resource, g_cred),
                       !.d.err = IF rc < 0 THEN "ChannelError" ELSE @]
         /\ IF rc < 0
            THEN MvReturn(-1)
            ELSE /\ mv' = [mv EXCEPT !.rc = rc,
                                     !.contract = IF rc = 0 THEN "remote_contract" ELSE NULL,
                                     !.con_len = IF rc = 0 THEN 3 ELSE 0]
                 /\ pc' = [pc EXCEPT ![0] = "mv_swap"]
    /\ UNCHANGED <<scen, graph>>
    /\ MvFrame

\* lines 273-281: save the scenario's contract, install the received one, allocate the blob
MV_SwapContract ==
    /\ pc[0] = "mv_swap"
    /\ mv' = [mv EXCEPT !.tmp_contract = scen.contract, !.tmp_con_len = scen.size,
                        !.blob = "empty"]
    /\ scen' = [scen EXCEPT !.contract = mv.contract, !.size = mv.con_len]
    /\ hist' = [hist EXCEPT !.d.swapped = TRUE]
    /\ pc' = [pc EXCEPT ![0] = "mv_process"]
    /\ UNCHANGED graph
    /\ MvFrame

\* lines 284-285: process_contract verifies the scenario's contract and extracts the payload
MV_ProcessContract ==
    /\ pc[0] = "mv_process"
    /\ \E rc \in {-1, 0} : \E payload \in Payloads :
         /\ mv' = [mv EXCEPT !.rc = rc, !.blob = IF rc = 0 THEN payload ELSE "empty"]
         /\ hist' = [hist EXCEPT !.d.calls = @ \cup {"process_contract"},
                                 !.d.verified = <<scen.contract, scen.size>>]
    /\ pc' = [pc EXCEPT ![0] = "mv_restore"]
    /\ UNCHANGED <<scen, graph>>
    /\ MvFrame

\* lines 286-294: restore the scenario's contract, then look at the verification status
MV_RestoreContract ==
    /\ pc[0] = "mv_restore"
    /\ scen' = RestoreContract(scen, mv.tmp_contract, mv.tmp_con_len)
    /\ IF mv.rc < 0
       THEN /\ mv' = [mv EXCEPT !.rc = -1, !.contract = NULL, !.blob = NULL]
            /\ hist' = [hist EXCEPT !.d.err = "ContractVerificationFailed"]
            /\ pc' = [pc EXCEPT ![0] = "mv_return"]
       ELSE /\ mv' = [mv EXCEPT !.contract = NULL]
            /\ pc' = [pc EXCEPT ![0] = "mv_marshall"]
            /\ UNCHANGED hist
    /\ UNCHANGED graph
    /\ MvFrame

\* the blob handed to the graph carries no payload
BlobData_Empty(buffer) == [type |-> "blob_measurement_type", value |-> "empty"]

\* lines 279-285 and 297: a blob measurement whose buffer process_contract filled
BlobData(buffer) == [type |-> "blob_measurement_type", value |-> buffer]

\* lines 297-302: marshall the blob; on failure the code dereferences the NULL md,
\* which either faults or falls through to the error return
MV_Marshall ==
    /\ pc[0] = "mv_marshall"
    /\ \E out \in {"ok", "null_faults", "null_survives"} :
         CASE out = "ok" ->
                /\ mv' = [mv EXCEPT !.md = BlobData(mv.blob)]
                /\ pc' = [pc EXCEPT ![0] = "mv_add_data"]
                /\ UNCHANGED hist
           [] out = "null_faults" ->
                /\ mv' = [mv EXCEPT !.md = NoData]
                /\ hist' = [hist EXCEPT !.d.err = "SerializationFailed"]
                /\ pc' = [pc EXCEPT ![0] = "crashed"]
           [] OTHER ->
                /\ mv' = [mv EXCEPT !.md = NoData, !.rc = -1]
                /\ hist' = [hist EXCEPT !.d.err = "SerializationFailed"]
                /\ pc' = [pc EXCEPT ![0] = "mv_return"]
    /\ UNCHANGED <<scen, graph>>
    /\ MvFrame

\* lines 304-307: attach the marshalled blob to the node, return the status
MV_AddData ==
    /\ pc[0] = "mv_add_data"
    /\ \E rc \in {-1, 0} :
         /\ graph' = IF rc = 0 THEN measurement_node_add_data(graph, mv.n, mv.md) ELSE graph
         /\ hist' = [hist EXCEPT !.d.err = IF rc < 0 THEN "GraphWriteFailed" ELSE @,
                                 !.remote_ok = IF rc = 0 THEN @ \cup {<<mv.var, mv.mtype>>}
                                               ELSE @]
         /\ MvReturn(rc)
    /\ UNCHANGED scen
    /\ MvFrame

\* lines 309-313: every other worker, delegate to measure_variable_internal
MV_Default ==
    /\ pc[0] = "mv_default"
    /\ \E rc \in {-1, 0} :
         /\ hist' = [hist EXCEPT !.d.calls = @ \cup {"measure_variable_internal"}]
         /\ graph' = IF rc = 0
                     THEN measurement_node_add_data(
                              [graph EXCEPT ![mv.var].present = TRUE], mv.var,
                              [type |-> mv.mtype, value |-> "userspace_data"])
                     ELSE graph
         /\ MvReturn(rc)
    /\ UNCHANGED scen
    /\ MvFrame

\* the dispatcher's value is back with the evaluation engine
MV_Return ==
    /\ pc[0] = "mv_return"
    /\ mv' = NoMv
    /\ hist' = [hist EXCEPT !.d = NoDispatch,
                            !.failed = IF mv.rc # 0 THEN @ + 1 ELSE @]
    /\ pc' = [pc EXCEPT ![0] = "apb_measure"]
    /\ UNCHANGED <<scen, graph>>
    /\ MvFrame

\* ------------------------------------------------ execute_sign_send_pipeline
EspFrame == UNCHANGED <<ns, argc, i, apb_asps, g_dom_z_info, g_dom_t_info, g_cred,
                        g_scen, res, graph, mv, hist>>

\* the status a parent reads for exit(code): the low eight bits
ExitStatus(code) == code % 256

\* exit(code) in process p
Exit(p, code) ==
    /\ pc' = [pc EXCEPT ![p] = "exited"]
    /\ plog' = [plog EXCEPT !.exits[p] = ExitStatus(code)]

\* the resolution that leaves the encrypt worker to the branch that uses it
FirstMissingAsp_EncryptUnchecked(asps) ==
    IF find_asp(asps, "serialize_graph_asp") = NULL THEN "serialize_graph_asp"
    ELSE IF find_asp(asps, "compress_asp") = NULL THEN "compress_asp"
    ELSE IF find_asp(asps, "create_measurement_contract_asp") = NULL
         THEN "create_measurement_contract_asp"
    ELSE IF find_asp(asps, "send_asp") = NULL THEN "send_asp"
    ELSE NULL

\* lines 350-383: the first of the five workers that cannot be resolved, or NULL
FirstMissingAsp(asps) ==
    IF find_asp(asps, "serialize_graph_asp") = NULL THEN "serialize_graph_asp"
    ELSE IF find_asp(asps, "compress_asp") = NULL THEN "compress_asp"
    ELSE IF find_asp(asps, "encrypt_asp") = NULL THEN "encrypt_asp"
    ELSE IF find_asp(asps, "create_measurement_contract_asp") = NULL
         THEN "create_measurement_contract_asp"
    ELSE IF find_asp(asps, "send_asp") = NULL THEN "send_asp"
    ELSE NULL

\* lines 344-392: copy the working directory, resolve the workers, get the graph path
ESP_Entry ==
    /\ pc[0] = "esp_entry"
    /\ \E wd \in {NULL, "workdir"} : \E dup_ok \in BOOLEAN : \E path_ok \in BOOLEAN :
         /\ scen' = [scen EXCEPT !.workdir = wd]
         /\ IF wd = NULL \/ ~dup_ok
            THEN /\ esp' = [esp EXCEPT ![0] = [NoEsp EXCEPT !.ret_val = -1]]
                 /\ pc' = [pc EXCEPT ![0] = "esp_return"]
            ELSE IF FirstMissingAsp(apb_asps) # NULL
            THEN /\ esp' = [esp EXCEPT ![0] = [NoEsp EXCEPT !.ret_val = -1, !.workdir = wd]]
                 /\ pc' = [pc EXCEPT ![0] = "esp_return"]
            ELSE IF ~path_ok
            THEN /\ esp' = [esp EXCEPT ![0] = [NoEsp EXCEPT !.ret_val = -1, !.workdir = wd]]
                 /\ pc' = [pc EXCEPT ![0] = "esp_return"]
            ELSE /\ esp' = [esp EXCEPT ![0] = [NoEsp EXCEPT !.ret_val = -1, !.workdir = wd,
                                                  !.graph_path = "graph_path",
                                                  !.serialize_args = <<"graph_path">>]]
                 /\ pc' = [pc EXCEPT ![0] = "esp_serialize"]
    /\ UNCHANGED <<ret_val, plog>>
    /\ EspFrame

\* fork_and_buffer_async_asp(asp, n, argv, infd, &fb_fd) called by process p: -2 when the
\* spawn fails, -1 when the worker fails; else a child is forked, it gets 0 and goes on
\* at `resume` with the pipe's read end in fb_fd, and p waits for the child's exit
FabaaCall(p, asp, n, argv, infd, resume) ==
    \E out \in {"spawn_failed", "worker_failed", "forked"} :
      CASE out = "spawn_failed" ->
             /\ esp' = [esp EXCEPT ![p].ret_val = -2]
             /\ pc' = [pc EXCEPT ![p] = resume]
             /\ plog' = [plog EXCEPT !.spawn_failed = @ \cup {asp}]
        [] out = "worker_failed" ->
             /\ esp' = [esp EXCEPT ![p].ret_val = -1]
             /\ pc' = [pc EXCEPT ![p] = resume]
             /\ plog' = [plog EXCEPT !.worker_failed = @ \cup {asp}]
        [] OTHER ->
             /\ esp' = [esp EXCEPT ![p].resume = resume,
                                   ![p + 1] = [esp[p] EXCEPT !.ret_val = 0,
                                                             !.fb_fd = plog.next_fd]]
             /\ pc' = [pc EXCEPT ![p] = "fabaa_wait", ![p + 1] = resume]
             /\ plog' = [plog EXCEPT
                           !.spawned = Append(@, [asp |-> asp, argc |-> n, argv |-> argv,
                                                  infd |-> infd, outfd |-> plog.next_fd,
                                                  by |-> p]),
                           !.next_fd = @ + 1]

\* fork_and_buffer_async_asp returns in the parent once its child has exited: the child's
\* handle when the child exited with 0, else -1
FabaaWait ==
    /\ \E p \in Procs \ {4} :
         /\ pc[p] = "fabaa_wait"
         /\ pc[p + 1] = "exited"
         /\ esp' = [esp EXCEPT ![p].ret_val = IF plog.exits[p + 1] = 0 THEN p + 1 ELSE -1]
         /\ pc' = [pc EXCEPT ![p] = esp[p].resume]
    /\ UNCHANGED <<ret_val, scen, plog>>
    /\ EspFrame

\* line 394: spawn the serialize stage
ESP_Serialize ==
    /\ \E p \in Procs :
         /\ pc[p] = "esp_serialize"
         /\ FabaaCall(p, "serialize_graph_asp", 1, esp[p].serialize_args, STDIN_FILENO,
                      "esp_serialize_ret")
    /\ UNCHANGED <<ret_val, scen>>
    /\ EspFrame

\* lines 395-399 and 466-468: only the child (0) goes on, every other value is returned
SerializeOutcome(ret) == IF ret = 0 THEN "esp_compress" ELSE "esp_return"

\* lines 395-399: what the caller of the serialize spawn does with its result
ESP_SerializeResult ==
    /\ \E p \in Procs :
         /\ pc[p] = "esp_serialize_ret"
         /\ pc' = [pc EXCEPT ![p] = SerializeOutcome(esp[p].ret_val)]
    /\ UNCHANGED <<ret_val, scen, esp, plog>>
    /\ EspFrame

\* line 400: spawn the compress stage on the serialize stage's output
ESP_Compress ==
    /\ \E p \in Procs :
         /\ pc[p] = "esp_compress"
         /\ FabaaCall(p, "compress_asp", 0, <<>>, esp[p].fb_fd, "esp_compress_ret")
    /\ UNCHANGED <<ret_val, scen>>
    /\ EspFrame

\* the parent of the compress stage does not exit and goes on like its child
CompressOutcome_ParentGoesOn(ret) ==
    IF ret = -2 THEN [exit |-> TRUE, code |-> -1]
    ELSE IF ret = -1 THEN [exit |-> TRUE, code |-> -1]
    ELSE [exit |-> FALSE, code |-> 0]

\* lines 401-410: exit(-1) on either failure, exit(0) in the parent, go on in the child
CompressOutcome(ret) ==
    IF ret = -2 THEN [exit |-> TRUE, code |-> -1]
    ELSE IF ret = -1 THEN [exit |-> TRUE, code |-> -1]
    ELSE IF ret > 0 THEN [exit |-> TRUE, code |-> 0]
    ELSE [exit |-> FALSE, code |-> 0]

\* lines 401-410: what the caller of the compress spawn does with its result
ESP_CompressResult ==
    /\ \E p \in Procs :
         /\ pc[p] = "esp_compress_ret"
         /\ LET o == CompressOutcome(esp[p].ret_val) IN
              IF o.exit THEN Exit(p, o.code)
              ELSE /\ pc' = [pc EXCEPT ![p] = "esp_partner_cert"]
                   /\ UNCHANGED plog
    /\ UNCHANGED <<ret_val, scen, esp>>
    /\ EspFrame

\* lines 411-416 and 428-430: encrypt only with a copy of the partner certificate's path;
\* the encryption flag goes to create_con_args[9]
ESP_PartnerCert ==
    /\ \E p \in Procs :
         /\ pc[p] = "esp_partner_cert"
         /\ \E cert \in {NULL, "partner_cert"} : \E dup_ok \in BOOLEAN :
              /\ scen' = [scen EXCEPT !.partner_cert = cert]
              /\ IF cert # NULL /\ dup_ok
                 THEN /\ esp' = [esp EXCEPT ![p].partner_cert = cert,
                                            ![p].encrypt_args = <<cert>>,
                                            ![p].create_con_args[9] = "1"]
                      /\ pc' = [pc EXCEPT ![p] = "esp_encrypt"]
                 ELSE /\ esp' = [esp EXCEPT ![p].create_con_args[9] = "0"]
                      /\ pc' = [pc EXCEPT ![p] = "esp_create_con_args"]
    /\ plog' = [plog EXCEPT !.cc_indices = @ \cup {9}]
    /\ UNCHANGED ret_val
    /\ EspFrame

\* line 417: spawn the encrypt stage on the compress stage's output
ESP_Encrypt ==
    /\ \E p \in Procs :
         /\ pc[p] = "esp_encrypt"
         /\ FabaaCall(p, "encrypt_asp", 1, esp[p].encrypt_args, esp[p].fb_fd,
                      "esp_encrypt_ret")
    /\ UNCHANGED <<ret_val, scen>>
    /\ EspFrame

\* lines 418-427: exit(-1) on either failure, exit(0) in the parent, go on in the child
EncryptOutcome(ret) ==
    IF ret = -2 THEN [exit |-> TRUE, code |-> -1]
    ELSE IF ret = -1 THEN [exit |-> TRUE, code |-> -1]
    ELSE IF ret > 0 THEN [exit |-> TRUE, code |-> 0]
    ELSE [exit |-> FALSE, code |-> 0]

\* lines 418-427: what the caller of the encrypt spawn does with its result
ESP_EncryptResult ==
    /\ \E p \in Procs :
         /\ pc[p] = "esp_encrypt_ret"
         /\ LET o == EncryptOutcome(esp[p].ret_val) IN
              IF o.exit THEN Exit(p, o.code)
              ELSE /\ pc' = [pc EXCEPT ![p] = "esp_create_con_args"]
                   /\ UNCHANGED plog
    /\ UNCHANGED <<ret_val, scen, esp>>
    /\ EspFrame

\* lines 432-441: the arguments of the create-contract stage, slots 0 to 8
CreateConArgs(args, workdir, cred) ==
    [k \in DOMAIN args |->
        CASE k = 0 -> workdir
          [] k = 1 -> cred["certfile"]
          [] k = 2 -> cred["keyfile"]
          [] k = 3 -> cred["keypass"]
          [] k = 4 -> cred["tpmpass"]
          [] k = 5 -> cred["akctx"]
          [] k = 6 -> cred["sign_tpm"]
          [] k = 7 -> "1"
          [] k = 8 -> "1"
          [] OTHER -> args[k]]

\* lines 432-441: fill create_con_args
ESP_CreateConArgs ==
    /\ \E p \in Procs :
         /\ pc[p] = "esp_create_con_args"
         /\ esp' = [esp EXCEPT ![p].create_con_args =
                                   CreateConArgs(@, esp[p].workdir, g_cred)]
         /\ pc' = [pc EXCEPT ![p] = "esp_create_con"]
    /\ plog' = [plog EXCEPT !.cc_indices = @ \cup (0 .. 8)]
    /\ UNCHANGED <<ret_val, scen>>
    /\ EspFrame

\* the n arguments a callee reads from create_con_args: the slots past the array's eight
\* elements are other stack memory, which holds the value written there or something else
CreateConArgv(args, n, intact) ==
    [k \in 1 .. n |-> IF k - 1 < CreateConArgsLen \/ intact THEN args[k - 1] ELSE "garbage"]

\* line 444: spawn the create-contract stage with ten arguments
ESP_CreateCon ==
    /\ \E p \in Procs :
         /\ pc[p] = "esp_create_con"
         /\ \E intact \in BOOLEAN :
              FabaaCall(p, "create_measurement_contract_asp", CreateConArgc,
                        CreateConArgv(esp[p].create_con_args, CreateConArgc, intact),
                        esp[p].fb_fd, "esp_create_con_ret")
    /\ UNCHANGED <<ret_val, scen>>
    /\ EspFrame

\* the branch that leaves with 0 when the spawn failed
CreateConOutcome_SpawnFailureExitsZero(ret) ==
    IF ret = -2 THEN [exit |-> TRUE, code |-> 0]
    ELSE IF ret = -1 THEN [exit |-> TRUE, code |-> -1]
    ELSE IF ret > 0 THEN [exit |-> TRUE, code |-> 0]
    ELSE [exit |-> FALSE, code |-> 0]

\* lines 445-454: exit(-1) on either failure, exit(0) in the parent, go on in the child
CreateConOutcome(ret) ==
    IF ret = -2 THEN [exit |-> TRUE, code |-> -1]
    ELSE IF ret = -1 THEN [exit |-> TRUE, code |-> -1]
    ELSE IF ret > 0 THEN [exit |-> TRUE, code |-> 0]
    ELSE [exit |-> FALSE, code |-> 0]

\* lines 445-454: what the caller of the create-contract spawn does with its result
ESP_CreateConResult ==
    /\ \E p \in Procs :
         /\ pc[p] = "esp_create_con_ret"
         /\ LET o == CreateConOutcome(esp[p].ret_val) IN
              IF o.exit THEN Exit(p, o.code)
              ELSE /\ pc' = [pc EXCEPT ![p] = "esp_send"]
                   /\ UNCHANGED plog
    /\ UNCHANGED <<ret_val, scen, esp>>
    /\ EspFrame

\* the statuses run_asp reports for the send worker
SendStatuses == {-1, 0, 1, 3}

\* lines 458-463: the exit code of the leaf for the send worker's status
SendExitCode(status) == IF status < 0 THEN -1 ELSE status

\* lines 456-463: run the send worker on the last pipe and the peer channel, then exit
ESP_Send ==
    /\ \E p \in Procs :
         /\ pc[p] = "esp_send"
         /\ \E status \in SendStatuses :
              /\ esp' = [esp EXCEPT ![p].ret_val = status]
              /\ pc' = [pc EXCEPT ![p] = "exited"]
              /\ plog' = [plog EXCEPT
                            !.sends = Append(@, [by |-> p, infd |-> esp[p].fb_fd,
                                                 outfd |-> PEERCHAN, status |-> status]),
                            !.exits[p] = ExitStatus(SendExitCode(status))]
    /\ UNCHANGED <<ret_val, scen>>
    /\ EspFrame

\* lines 468-473 and 607: free the copies and return ret_val to apb_execute
ESP_Return ==
    /\ \E p \in Procs :
         /\ pc[p] = "esp_return"
         /\ plog' = [plog EXCEPT !.returned = @ \cup {p}]
         /\ IF p = 0
            THEN /\ ret_val' = esp[p].ret_val
                 /\ pc' = [pc EXCEPT ![p] = "apb_str_alloc_err"]
            ELSE /\ pc' = [pc EXCEPT ![p] = "apb_child_returned"]
                 /\ UNCHANGED ret_val
    /\ UNCHANGED <<scen, esp>>
    /\ EspFrame

\* ------------------------------------------------------------ specification
Next ==
    \/ APB_CheckArgc
    \/ APB_RegisterTypes
    \/ APB_ProcessArg
    \/ APB_CheckPlaces
    \/ APB_GetMeasSpec
    \/ APB_CreateGraph
    \/ APB_Stage
    \/ APB_EvaluateDone
    \/ APB_CallPipeline
    \/ APB_StrAllocErr
    \/ APB_GraphErr
    \/ APB_PlaceArgErr
    \/ MV_Select
    \/ MV_KernelAddNode
    \/ MV_KernelRun
    \/ MV_RemoteAddNode
    \/ MV_GetRequestAddr
    \/ MV_GetChannelInfo
    \/ MV_InvokeSendExecute
    \/ MV_SwapContract
    \/ MV_ProcessContract
    \/ MV_RestoreContract
    \/ MV_Marshall
    \/ MV_AddData
    \/ MV_Default
    \/ MV_Return
    \/ ESP_Entry
    \/ ESP_Serialize
    \/ ESP_SerializeResult
    \/ ESP_Compress
    \/ ESP_CompressResult
    \/ ESP_PartnerCert
    \/ ESP_Encrypt
    \/ ESP_EncryptResult
    \/ ESP_CreateConArgs
    \/ ESP_CreateCon
    \/ ESP_CreateConResult
    \/ ESP_Send
    \/ ESP_Return
    \/ FabaaWait

Spec == Init /\ [][Next]_vars

\* ------------------------------------------- the dispatcher on its own
\* the run has staged its state and evaluate_measurement_spec is about to dispatch
InitDispatch ==
    /\ pc = [p \in Procs |-> IF p = 0 THEN "apb_measure" ELSE "none"]
    /\ argc = 2
    /\ i = 2
    /\ ret_val = 0
    /\ apb_asps \in {AllAsps, AllAsps \ {"kernel_msmt_asp"}}
    /\ g_dom_z_info = PlaceDirectory["p1"]
    /\ g_dom_t_info = PlaceDirectory["p2"]
    /\ \E setf \in ScenCredSets : g_cred = [f \in CredFields |-> StagedValue(f, f \in setf, "none")]
    /\ g_scen = "scen"
    /\ scen = [contract |-> "execute_contract", size |-> 4,
               partner_cert |-> "unread", workdir |-> "unread"]
    /\ res = [mspec |-> "held", graph |-> "held", creds |-> "held",
              dom_z |-> "held", dom_t |-> "held"]
    /\ graph = EmptyGraph
    /\ mv = NoMv
    /\ hist = [lookups |-> [NoLookups EXCEPT !["@_0"] = <<"p1">>, !["@_t"] = <<"p2">>],
               ignored |-> {}, incomplete |-> FALSE,
               budget |-> MaxDispatch, dispatched |-> 0, failed |-> 0, remote_ok |-> {},
               evaluated |-> FALSE, pipelines |-> 0, d |-> NoDispatch]
    /\ esp = [p \in Procs |-> NoEsp]
    /\ plog = [spawned |-> <<>>, spawn_failed |-> {}, worker_failed |-> {},
               sends |-> <<>>, exits |-> [p \in Procs |-> -1], returned |-> {},
               cc_indices |-> {}, next_fd |-> 3]
    /\ ns = NoNetstat

NextDispatch ==
    \/ MV_Select
    \/ MV_KernelAddNode
    \/ MV_KernelRun
    \/ MV_RemoteAddNode
    \/ MV_GetRequestAddr
    \/ MV_GetChannelInfo
    \/ MV_InvokeSendExecute
    \/ MV_SwapContract
    \/ MV_ProcessContract
    \/ MV_RestoreContract
    \/ MV_Marshall
    \/ MV_AddData
    \/ MV_Default
    \/ MV_Return

SpecDispatch == InitDispatch /\ [][NextDispatch]_vars

\* ------------------------------------------- the pipeline on its own
\* evaluation is over and apb_execute is about to call execute_sign_send_pipeline
InitPipeline ==
    /\ pc = [p \in Procs |-> IF p = 0 THEN "apb_pipeline" ELSE "none"]
    /\ argc = 2
    /\ i = 2
    /\ ret_val = 0
    /\ apb_asps \in AspRegistries
    /\ g_dom_z_info = PlaceDirectory["p1"]
    /\ g_dom_t_info = PlaceDirectory["p2"]
    /\ \E setf \in ScenCredSets : g_cred = [f \in CredFields |-> StagedValue(f, f \in setf, "none")]
    /\ g_scen = "scen"
    /\ scen = [contract |-> "execute_contract", size |-> 4,
               partner_cert |-> "unread", workdir |-> "unread"]
    /\ res = [mspec |-> "held", graph |-> "held", creds |-> "held",
              dom_z |-> "held", dom_t |-> "held"]
    /\ graph = EmptyGraph
    /\ mv = NoMv
    /\ hist = [lookups |-> [NoLookups EXCEPT !["@_0"] = <<"p1">>, !["@_t"] = <<"p2">>],
               ignored |-> {}, incomplete |-> FALSE,
               budget |-> MaxRunDispatch, dispatched |-> 0, failed |-> 0, remote_ok |-> {},
               evaluated |-> TRUE, pipelines |-> 0, d |-> NoDispatch]
    /\ esp = [p \in Procs |-> NoEsp]
    /\ plog = [spawned |-> <<>>, spawn_failed |-> {}, worker_failed |-> {},
               sends |-> <<>>, exits |-> [p \in Procs |-> -1], returned |-> {},
               cc_indices |-> {}, next_fd |-> 3]
    /\ ns = NoNetstat

NextPipeline ==
    \/ APB_CallPipeline
    \/ ESP_Entry
    \/ ESP_Serialize
    \/ ESP_SerializeResult
    \/ ESP_Compress
    \/ ESP_CompressResult
    \/ ESP_PartnerCert
    \/ ESP_Encrypt
    \/ ESP_EncryptResult
    \/ ESP_CreateConArgs
    \/ ESP_CreateCon
    \/ ESP_CreateConResult
    \/ ESP_Send
    \/ ESP_Return
    \/ FabaaWait
    \/ APB_StrAllocErr
    \/ APB_GraphErr
    \/ APB_PlaceArgErr

SpecPipeline == InitPipeline /\ [][NextPipeline]_vars

\* ------------------------------------------- netstatraw6: chunk_line_data
ZeroAddress == "00000000000000000000000000000000"
MappedLoopback == "0000000000000000FFFF00000100007F"
AddressFields == {ZeroAddress, MappedLoopback}

\* the port fields of the lines: four hexadecimal digits
PortFields == {<<"0", "0", "0", "0">>, <<"0", "0", "5", "0">>, <<"7", "F", "F", "F">>,
               <<"8", "0", "0", "0">>, <<"C", "0", "0", "0">>, <<"F", "F", "F", "F">>}

HexChars == <<"0", "1", "2", "3", "4", "5", "6", "7", "8", "9", "A", "B", "C", "D", "E", "F">>
DecChars == <<"0", "1", "2", "3", "4", "5", "6", "7", "8", "9">>

\* the value of a digit character in a base of at most 16
DigitValue(c) == (CHOOSE k \in 1 .. 16 : HexChars[k] = c) - 1

\* strtol(s, NULL, base) on a string of digits
RECURSIVE strtol(_, _)
strtol(s, base) ==
    IF s = <<>> THEN 0
    ELSE base * strtol(SubSeq(s, 1, Len(s) - 1), base) + DigitValue(s[Len(s)])

\* atoi on a string of decimal digits
atoi(s) == strtol(s, 10)

\* the decimal digits of a number that is not negative
RECURSIVE DecDigits(_)
DecDigits(n) ==
    IF n < 10 THEN <<DecChars[n + 1]>>
    ELSE Append(DecDigits(n \div 10), DecChars[(n % 10) + 1])

\* printf's %d
FormatD(n) == IF n < 0 THEN <<"-">> \o DecDigits(-n) ELSE DecDigits(n)

\* the conversion of a long to short: the low sixteen bits, read as a signed value
ToShort(x) ==
    LET m == x % 65536 IN IF m >= 32768 THEN m - 65536 ELSE m

\* lines 75-80 and 86-91: "::1" for the all-zero field, else what inet_ntop prints
RenderAddress(field) ==
    IF field = ZeroAddress THEN "::1"
    ELSE IF field = MappedLoopback THEN "::ffff:127.0.0.1"
    ELSE NULL

\* lines 82-83 and 93-94: snprintf(buf, 52, "[%s]:%d", addr, (short) port)
RenderEndpoint(addr, port) == <<"[", addr, "]", ":">> \o FormatD(ToShort(port))

NsFrame == UNCHANGED <<pc, argc, i, ret_val, apb_asps, g_dom_z_info, g_dom_t_info,
                       g_cred, g_scen, scen, res, graph, mv, hist, esp, plog>>

\* line 189: getline gives the next line of the file, or the file is over
NS_GetLine ==
    /\ ns.pc = "ns_getline"
    /\ IF ns.read >= MaxLines
       THEN ns' = [ns EXCEPT !.pc = "ns_add_rawdata"]
       ELSE \E la, ra \in AddressFields : \E lp, rp \in PortFields :
              ns' = [ns EXCEPT !.pc = "ns_chunk_local",
                               !.read = @ + 1,
                               !.ret = NoNetstatLine,
                               !.line = [local_address |-> la, local_port |-> lp,
                                         rem_address |-> ra, rem_port |-> rp,
                                         state |-> "07", uid |-> <<"0">>,
                                         inode |-> <<"4", "2">>]]
    /\ NsFrame

\* lines 73-83: the local address and port
NS_ChunkLocal ==
    /\ ns.pc = "ns_chunk_local"
    /\ ns' = [ns EXCEPT !.pc = "ns_chunk_remote",
                        !.ret.local_addr = RenderEndpoint(RenderAddress(ns.line.local_address),
                                                          strtol(ns.line.local_port, 16))]
    /\ NsFrame

\* lines 85-94: the remote address and port
NS_ChunkRemote ==
    /\ ns.pc = "ns_chunk_remote"
    /\ ns' = [ns EXCEPT !.pc = "ns_chunk_rest",
                        !.ret.rem_addr = RenderEndpoint(RenderAddress(ns.line.rem_address),
                                                        strtol(ns.line.rem_port, 16))]
    /\ NsFrame

\* lines 96-110 and 193: state, uid and inode; the chunked line goes to the front of
\* the list
NS_ChunkRest ==
    /\ ns.pc = "ns_chunk_rest"
    /\ LET nl == [ns.ret EXCEPT !.State = ns.line.state, !.uid = atoi(ns.line.uid),
                                !.inode = atoi(ns.line.inode)] IN
         ns' = [ns EXCEPT !.pc = "ns_getline", !.ret = nl, !.lines = <<nl>> \o @]
    /\ NsFrame

\* lines 198-204: the lines go to the node as raw data, asp_measure returns 0
NS_AddRawData ==
    /\ ns.pc = "ns_add_rawdata"
    /\ ns' = [ns EXCEPT !.pc = "ns_done"]
    /\ NsFrame

\* the worker has opened /proc/net/raw6 and read the header line (lines 169-188)
InitNetstat ==
    /\ pc = [p \in Procs |-> "none"]
    /\ argc = 0
    /\ i = 0
    /\ ret_val = -1
    /\ apb_asps = {}
    /\ g_dom_z_info = NoPlace
    /\ g_dom_t_info = NoPlace
    /\ g_cred = [f \in CredFields |-> NULL]
    /\ g_scen = NULL
    /\ scen = [contract |-> "execute_contract", size |-> 4,
               partner_cert |-> "unread", workdir |-> "unread"]
    /\ res = [mspec |-> "none", graph |-> "none", creds |-> "none",
              dom_z |-> "none", dom_t |-> "none"]
    /\ graph = EmptyGraph
    /\ mv = NoMv
    /\ hist = [lookups |-> NoLookups, ignored |-> {}, incomplete |-> FALSE,
               budget |-> 0, dispatched |-> 0, failed |-> 0, remote_ok |-> {},
               evaluated |-> FALSE, pipelines |-> 0, d |-> NoDispatch]
    /\ esp = [p \in Procs |-> NoEsp]
    /\ plog = [spawned |-> <<>>, spawn_failed |-> {}, worker_failed |-> {},
               sends |-> <<>>, exits |-> [p \in Procs |-> -1], returned |-> {},
               cc_indices |-> {}, next_fd |-> 3]
    /\ ns = [NoNetstat EXCEPT !.pc = "ns_getline"]

NextNetstat ==
    \/ NS_GetLine
    \/ NS_ChunkLocal
    \/ NS_ChunkRemote
    \/ NS_ChunkRest
    \/ NS_AddRawData

SpecNetstat == InitNetstat /\ [][NextNetstat]_vars

\* ================================================================== claims
RemoteLayered == mv.asp = "send_execute_tcp_asp"
KernelDirect == mv.asp = "kernel_msmt_asp"
Returned == pc[0] = "mv_return"

\* C1: when a remote-layered dispatch is over (it returned, or it faulted), the
\* scenario's contract pointer and size are the ones it had when the dispatch began.
C1_ContractRestored ==
    (RemoteLayered /\ pc[0] \in {"mv_return", "crashed"}) =>
        /\ scen.contract = hist.d.contract_pre[1]
        /\ scen.size = hist.d.contract_pre[2]

\* C1 witness: a dispatch that installed the received contract, failed verification
\* and returned.
C1_Witness ==
    /\ RemoteLayered /\ Returned
    /\ hist.d.swapped
    /\ hist.d.verified = <<"remote_contract", 3>>
    /\ hist.d.err = "ContractVerificationFailed"
    /\ mv.rc = -1

\* C2: a kernel-direct or remote-layered dispatch on a variable whose node already
\* carries data of the requested type calls no worker (no run_asp, no run_asp_buffers,
\* no process_contract) and returns 0.
C2_IdempotentDispatch ==
    (hist.d.active /\ hist.d.had_data /\ (RemoteLayered \/ KernelDirect)) =>
        /\ hist.d.calls = {}
        /\ pc[0] \in {"mv_kernel_add", "mv_remote_add", "mv_return"}
        /\ Returned => mv.rc = 0

\* C2 witness: a remote-layered dispatch on a measured node has returned.
C2_Witness ==
    /\ hist.d.active /\ hist.d.had_data /\ RemoteLayered /\ Returned
    /\ mv.rc = 0

\* an address of another kind than a dynamic measurement request
OtherAddressKind(v) == VarAddress(v).space \notin {NULL, "dynamic_measurement_request"}

\* C3 as stated: a remote-layered dispatch on a variable whose address is of another
\* kind fails and leaves the graph as it was before the dispatch.
C3_GraphUnchanged ==
    (RemoteLayered /\ Returned /\ OtherAddressKind(mv.var) /\ ~hist.d.had_data) =>
        /\ mv.rc < 0
        /\ graph = hist.d.graph_pre

\* C3 amended: a remote-layered dispatch that got its node, found no data of the type
\* on it and whose address is of another kind returns -1 for AddressKindMismatch, calls
\* no worker and attaches no data: the graph is the one before the dispatch but for the
\* variable's node, which is now present.
C3_NoDataAttached ==
    (RemoteLayered /\ Returned /\ OtherAddressKind(mv.var) /\ mv.n # NULL
       /\ ~hist.d.had_data) =>
        /\ mv.rc = -1
        /\ hist.d.err = "AddressKindMismatch"
        /\ hist.d.calls = {}
        /\ graph = [hist.d.graph_pre EXCEPT ![mv.var].present = TRUE]

\* C3 witness: the mismatch was reported for a node the dispatch itself added.
C3_Witness ==
    /\ RemoteLayered /\ Returned /\ OtherAddressKind(mv.var)
    /\ hist.d.err = "AddressKindMismatch"
    /\ ~hist.d.graph_pre[mv.var].present
    /\ graph[mv.var].present

\* C4: once the request address of a remote-layered dispatch names an attester other
\* than "@_0" and "@_t", the execute request is never issued and the dispatch returns
\* a failure for UnknownAttester.
C4_UnknownAttester ==
    (RemoteLayered /\ mv.va # NoAddress /\ mv.va.attester \notin {"@_0", "@_t"}) =>
        /\ "run_asp_buffers" \notin hist.d.calls
        /\ "process_contract" \notin hist.d.calls
        /\ pc[0] \in {"mv_chan_info", "mv_return"}
        /\ Returned => (mv.rc < 0 /\ hist.d.err = "UnknownAttester")

\* C4 witness: a dispatch to the attester "@_x" has returned.
C4_Witness ==
    /\ RemoteLayered /\ Returned
    /\ mv.va.attester = "@_x"
    /\ hist.d.err = "UnknownAttester"

\* the place of a stage in the pipeline
StageRank(asp) ==
    CASE asp = "serialize_graph_asp" -> 1
      [] asp = "compress_asp" -> 2
      [] asp = "encrypt_asp" -> 3
      [] asp = "create_measurement_contract_asp" -> 4
      [] OTHER -> 5

SpawnedAsps == [k \in 1 .. Len(plog.spawned) |-> plog.spawned[k].asp]
ApbDone == pc[0] = "apb_done"

\* C5: once the spawn of a stage has failed, no stage at or after it is ever spawned,
\* the send worker is not run, and apb_execute returns a negative value, which is not 0
\* and not the value of a run whose send succeeded.
C5_SpawnFailureHalts ==
    (plog.spawn_failed # {}) =>
        /\ Cardinality(plog.spawn_failed) = 1
        /\ \A a \in plog.spawn_failed : \A k \in 1 .. Len(plog.spawned) :
              StageRank(plog.spawned[k].asp) < StageRank(a)
        /\ plog.sends = <<>>
        /\ ApbDone => (ret_val # 0 /\ ret_val < 0)

\* C5 witness: the spawn of the create-contract stage failed three forks deep and
\* apb_execute has returned.
C5_Witness ==
    /\ ApbDone
    /\ plog.spawn_failed = {"create_measurement_contract_asp"}
    /\ Len(plog.spawned) >= 2
    /\ ret_val = -1

\* C6 as stated: when the chain reached the send stage, apb_execute returns the send
\* worker's completion status: 0 for a successful send, not 0 for a failed one.
C6_SendStatusReturned ==
    (ApbDone /\ Len(plog.sends) = 1) =>
        /\ ret_val = plog.sends[1].status
        /\ (plog.sends[1].status = 0) <=> (ret_val = 0)

\* C7 as stated: when a place is unresolved after the argument loop, apb_execute
\* returns a value that is not 0, and has loaded no measurement specification, created
\* no graph, dispatched no measurement and run no pipeline.
C7_IncompletePlacesFail ==
    (hist.incomplete /\ ApbDone) =>
        /\ ret_val # 0
        /\ res.mspec = "none" /\ res.graph = "none"
        /\ hist.dispatched = 0 /\ ~hist.evaluated /\ hist.pipelines = 0
        /\ plog.spawned = <<>> /\ plog.sends = <<>>

\* C8 as stated: at the spawn of the create-contract stage, a scenario without partner
\* certificate has had no encrypt stage spawned and passes "0" as the tenth argument;
\* a scenario with one has had the encrypt stage spawned right after compress and
\* passes "1".
C8_EncryptionBranchAndFlag ==
    \A k \in 1 .. Len(plog.spawned) :
        plog.spawned[k].asp = "create_measurement_contract_asp" =>
            /\ scen.partner_cert = NULL =>
                  /\ SpawnedAsps = <<"serialize_graph_asp", "compress_asp",
                                     "create_measurement_contract_asp">>
                  /\ plog.spawned[k].argv[10] = "0"
            /\ scen.partner_cert # NULL =>
                  /\ SpawnedAsps = <<"serialize_graph_asp", "compress_asp", "encrypt_asp",
                                     "create_measurement_contract_asp">>
                  /\ plog.spawned[k].argv[10] = "1"

\* each stage reads the pipe the stage before it writes, the first one reads stdin
PipesChained ==
    /\ Len(plog.spawned) > 0 => plog.spawned[1].infd = STDIN_FILENO
    /\ \A k \in 1 .. (Len(plog.spawned) - 1) :
          plog.spawned[k + 1].infd = plog.spawned[k].outfd

\* C9 as stated: the send worker runs only after serialize, compress, encrypt (when a
\* partner certificate is configured) and create-contract were spawned in that order,
\* each on the output of the one before, and reads the last pipe and writes the peer
\* channel; after a failed stage it never runs.
C9_SendAfterAllStages ==
    /\ \A j \in 1 .. Len(plog.sends) :
          /\ SpawnedAsps = IF scen.partner_cert # NULL
                           THEN <<"serialize_graph_asp", "compress_asp", "encrypt_asp",
                                  "create_measurement_contract_asp">>
                           ELSE <<"serialize_graph_asp", "compress_asp",
                                  "create_measurement_contract_asp">>
          /\ PipesChained
          /\ plog.sends[j].infd = plog.spawned[Len(plog.spawned)].outfd
          /\ plog.sends[j].outfd = PEERCHAN
    /\ (plog.spawn_failed # {} \/ plog.worker_failed # {}) => plog.sends = <<>>
    /\ Len(plog.sends) <= 1

\* the pipeline was entered and its resolution step is over
Resolved == hist.pipelines > 0 /\ pc[0] \notin {"apb_pipeline", "esp_entry"}

\* C10: with one of the five workers missing from the registry, the pipeline returns a
\* failure and no process is spawned: fork_and_buffer_async_asp and run_asp are never
\* called, whatever the partner certificate.
C10_MissingWorker ==
    (Resolved /\ PipelineAsps \ apb_asps # {}) =>
        /\ plog.spawned = <<>> /\ plog.spawn_failed = {} /\ plog.worker_failed = {}
        /\ plog.sends = <<>>
        /\ \A p \in Procs \ {0} : pc[p] = "none"
        /\ esp[0].ret_val = -1
        /\ ApbDone => ret_val = -1

\* C10 witness: the encrypt worker is missing, the working directory was copied, and
\* apb_execute has returned.
C10_Witness ==
    /\ ApbDone /\ hist.pipelines = 1
    /\ "encrypt_asp" \notin apb_asps
    /\ scen.workdir = "workdir"
    /\ ret_val = -1

\* the resources apb_execute acquires
Resources == {"mspec", "graph", "creds", "dom_z", "dom_t"}

\* no process is at a place that reads the run's resources
NoReader ==
    /\ pc[0] \in {"apb_str_alloc_err", "apb_graph_err", "apb_place_arg_err", "apb_done"}
    /\ \A p \in Procs \ {0} : pc[p] \in {"none", "exited"}

\* C11: on every path to its return, apb_execute releases each resource it acquired
\* (staged buffers, graph, measurement specification, both place infos) exactly once:
\* none is released twice, none is still held at the return, and once one is released
\* only the cleanup runs, with every forked process gone.
C11_CleanupOnce ==
    /\ \A r \in Resources : res[r] # "freed_twice"
    /\ ApbDone => \A r \in Resources : res[r] \in {"none", "freed"}
    /\ (\E r \in Resources : res[r] = "freed") => NoReader
    /\ pc[0] = "apb_place_arg_err" => (res.mspec # "held" /\ res.graph # "held"
                                        /\ res.creds # "held")

\* C11 witness: a run that went through the pipeline has returned with all five
\* resources released.
C11_Witness ==
    /\ ApbDone /\ hist.pipelines = 1
    /\ \A r \in Resources : res[r] = "freed"

\* staging succeeded: g_scen was set
Staged == g_scen = "scen"

\* C12: whatever the engine reports and whatever the dispatches returned, a run whose
\* staging succeeded calls the pipeline once evaluation is over, never before and never
\* twice, and returns the pipeline's result.
C12_PipelineDecides ==
    /\ hist.pipelines <= 1
    /\ hist.pipelines = 1 => (Staged /\ hist.evaluated)
    /\ pc[0] = "apb_pipeline" => (Staged /\ hist.evaluated /\ hist.pipelines = 0)
    /\ (Staged /\ pc[0] \in {"apb_str_alloc_err", "apb_graph_err", "apb_place_arg_err",
                              "apb_done"}) =>
          /\ hist.pipelines = 1
          /\ ret_val = esp[0].ret_val

\* C12 witness: every dispatch of the run failed, the pipeline ran and its send
\* succeeded, and apb_execute returned the pipeline's value.
C12_Witness ==
    /\ ApbDone /\ Staged
    /\ hist.dispatched >= 1 /\ hist.failed = hist.dispatched
    /\ Len(plog.sends) = 1 /\ plog.sends[1].status = 0
    /\ ret_val = esp[0].ret_val /\ ret_val > 0

NodesOf(g) == {v \in Vars : g[v].present}

\* a remote-layered dispatch to a configured attester has returned after the channel
\* client gave a contract and its verification gave a payload
RemoteVerified ==
    /\ RemoteLayered /\ Returned
    /\ mv.va # NoAddress /\ mv.va.attester \in {"@_0", "@_t"}
    /\ hist.d.verified = <<"remote_contract", 3>>
    /\ mv.blob \in Payloads

\* C13 as stated: such a dispatch has added exactly one node, the variable's, whose
\* data holds the payload as blob data, has returned 0 and has left the scenario's
\* contract pointer and size as they were.
C13_RemoteSuccess ==
    RemoteVerified =>
        /\ NodesOf(graph) \ NodesOf(hist.d.graph_pre) = {mv.var}
        /\ [type |-> "blob_measurement_type", value |-> mv.blob] \in graph[mv.var].data
        /\ mv.rc = 0
        /\ <<scen.contract, scen.size>> = hist.d.contract_pre

\* C13 amended: when moreover the blob was marshalled and the graph took it, the
\* dispatch returns 0, the graph is the one before the dispatch with the variable's
\* node present (added now unless it was there) and the payload as blob data added to
\* that node's data, and the scenario's contract pointer and size are as they were.
C13_RemoteSuccessAttached ==
    (RemoteVerified /\ mv.md # NoData /\ hist.d.err = NULL) =>
        /\ mv.rc = 0
        /\ NodesOf(graph) = NodesOf(hist.d.graph_pre) \cup {mv.var}
        /\ graph = [hist.d.graph_pre EXCEPT
                      ![mv.var].present = TRUE,
                      ![mv.var].data = @ \cup {[type |-> "blob_measurement_type",
                                                value |-> mv.blob]}]
        /\ hist.d.calls = {"run_asp_buffers", "process_contract"}
        /\ <<scen.contract, scen.size>> = hist.d.contract_pre

\* C13 witness: the first dispatch on a variable succeeded end to end, on a node it
\* added itself, after the received contract had been installed for verification.
C13_Witness ==
    /\ RemoteVerified /\ mv.md # NoData /\ hist.d.err = NULL
    /\ mv.rc = 0
    /\ ~hist.d.graph_pre[mv.var].present
    /\ graph[mv.var].data = {[type |-> "blob_measurement_type", value |-> "AABB"]}
    /\ hist.d.swapped

\* C14 as stated: the caller of the pipeline can tell a failed spawn from a failed
\* worker or child at every level: a worker or child failure gives it -1, a spawn
\* failure at any of the four stages gives it another value.
C14_DistinctSpawnFailureCode ==
    /\ (ApbDone /\ plog.worker_failed # {}) => ret_val = -1
    /\ (ApbDone /\ plog.spawn_failed # {}) => ret_val # -1

StagesSpawned == {plog.spawned[k].asp : k \in 1 .. Len(plog.spawned)}

\* the scenario names a partner certificate and the copy of its path failed
CertCopyFailed ==
    /\ 9 \in plog.cc_indices
    /\ scen.partner_cert = "partner_cert"
    /\ \A p \in Procs : esp[p].partner_cert = NULL

\* C15 as stated: when the copy of a configured partner certificate's path fails, the
\* create-contract stage is not spawned, the send worker is not run and apb_execute
\* returns a failure; the create-contract stage is spawned without an encrypt stage
\* before it only when the scenario names no partner certificate.
C15_CertCopyFailureFatal ==
    /\ CertCopyFailed =>
          /\ "create_measurement_contract_asp" \notin StagesSpawned
          /\ plog.sends = <<>>
          /\ ApbDone => ret_val < 0
    /\ ("create_measurement_contract_asp" \in StagesSpawned
          /\ "encrypt_asp" \notin StagesSpawned) => scen.partner_cert = NULL

\* the staging of lines 550-590 ran and left some buffer NULL
StagingAllocFailed == res.creds # "none" /\ StagingFailed(g_cred)

\* C16 as stated: after a staging in which some copy failed, apb_execute dispatches no
\* measurement, ends no evaluation, calls no pipeline and returns a value that is not 0.
C16_StagingFailureFatal ==
    StagingAllocFailed =>
        /\ hist.dispatched = 0 /\ ~hist.evaluated /\ hist.pipelines = 0
        /\ plog.spawned = <<>> /\ plog.sends = <<>>
        /\ ApbDone => ret_val # 0

\* C17 as stated: an invocation with three arguments, the two places and one more, is
\* not turned away for the extra argument: the argument-count check lets it through to
\* the loop that logs and skips the unknown key.
C17_ThirdArgumentIgnored ==
    [][(pc[0] = "apb_start" /\ argc = 3) => pc'[0] # "apb_done"]_vars

\* the place info apb_execute holds for a key
PlaceInfoOf(key) == IF key = "@_0" THEN g_dom_z_info ELSE g_dom_t_info

\* C18: the place directory is asked at most once for each of "@_0" and "@_t", for the
\* first occurrence of the key; an occurrence is skipped only after that lookup, and
\* from the lookup on the place info of the key is what it returned, whatever later
\* occurrences name.
C18_FirstOccurrenceWins ==
    \A key \in {"@_0", "@_t"} :
        /\ Len(hist.lookups[key]) <= 1
        /\ (\E value \in PlaceIds : <<key, value>> \in hist.ignored) =>
              Len(hist.lookups[key]) = 1
        /\ PlaceInfoOf(key) = IF Len(hist.lookups[key]) = 1
                              THEN get_place_information(hist.lookups[key][1]).info
                              ELSE NoPlace

\* C18 witness: "@_0" came twice, first as p1 and then as p2; the directory was asked
\* for p1 only and the run ended with the place info of p1.
C18_Witness ==
    /\ ApbDone
    /\ hist.lookups["@_0"] = <<"p1">>
    /\ hist.ignored = {<<"@_0", "p2">>}
    /\ g_dom_z_info = PlaceDirectory["p1"]

\* C19 as stated: the create-contract stage is spawned with nine arguments: the working
\* directory, the staged certificate, key, key passphrase, TPM passphrase, attestation
\* key context and TPM-signing flag, "1" for serialized and compressed, and "1" or "0"
\* for encrypted or not; nothing else.
C19_SigningStageArguments ==
    \A k \in 1 .. Len(plog.spawned) :
        plog.spawned[k].asp = "create_measurement_contract_asp" =>
            /\ plog.spawned[k].argc = 9
            /\ plog.spawned[k].argv =
                  <<esp[plog.spawned[k].by].workdir, g_cred["certfile"], g_cred["keyfile"],
                    g_cred["keypass"], g_cred["tpmpass"], g_cred["akctx"],
                    g_cred["sign_tpm"], "1",
                    IF "encrypt_asp" \in StagesSpawned THEN "1" ELSE "0">>

\* the cleanup of apb_execute has begun
InCleanup == pc[0] \in {"apb_str_alloc_err", "apb_graph_err", "apb_place_arg_err",
                        "apb_done"}

\* C20: from the setting of g_scen to the beginning of the cleanup no step of any
\* process writes a staged credential string or a resolved place info; the scenario's
\* contract pointer and size change only in a step of the original process inside a
\* remote-layered dispatch (the installation of the received contract and the
\* restoration), and no other scenario field changes once the program has read it.
C20_RunStateReadOnly ==
    [][(Staged /\ ~InCleanup) =>
          /\ g_cred' = g_cred
          /\ g_dom_z_info' = g_dom_z_info
          /\ g_dom_t_info' = g_dom_t_info
          /\ g_scen' = g_scen
          /\ <<scen.contract, scen.size>>' # <<scen.contract, scen.size>> =>
                /\ pc[0] \in {"mv_swap", "mv_restore"} /\ pc'[0] # pc[0]
                /\ RemoteLayered
                /\ \A p \in Procs \ {0} : pc[p] = "none"
          /\ \A f \in {"partner_cert", "workdir"} :
                scen'[f] # scen[f] => scen[f] = "unread"]_vars

\* C20 witness: a remote-layered dispatch attached its payload, so the received
\* contract was installed and taken out again, the pipeline ran to its send, and at the
\* beginning of the cleanup the staged strings, the place infos and the scenario's
\* contract are the ones of the staging.
C20_Witness ==
    /\ pc[0] = "apb_str_alloc_err" /\ Staged
    /\ \E v \in Vars : [type |-> "blob_measurement_type", value |-> "AABB"] \in graph[v].data
    /\ Len(plog.sends) = 1
    /\ \A f \in CredFields \ {"sign_tpm"} : g_cred[f] = f
    /\ g_dom_z_info # NoPlace /\ g_dom_t_info # NoPlace
    /\ <<scen.contract, scen.size>> = <<"execute_contract", 4>>

\* the places of a process inside execute_sign_send_pipeline
EspLocations == {"esp_entry", "esp_serialize", "esp_serialize_ret", "esp_compress",
                 "esp_compress_ret", "esp_partner_cert", "esp_encrypt", "esp_encrypt_ret",
                 "esp_create_con_args", "esp_create_con", "esp_create_con_ret",
                 "esp_send", "esp_return", "fabaa_wait"}

\* C21: a process forked inside execute_sign_send_pipeline is inside that function until
\* it exits there: none returns to apb_execute, so only the original process runs the
\* cleanup and the return, by which time every forked process has exited; and no stage
\* worker, the send worker included, is launched twice in a run.
C21_OnlyOriginalReturns ==
    /\ plog.returned \subseteq {0}
    /\ \A p \in Procs \ {0} : pc[p] \in EspLocations \cup {"none", "exited"}
    /\ InCleanup => \A p \in Procs \ {0} : pc[p] \in {"none", "exited"}
    /\ \A j, k \in 1 .. Len(plog.spawned) :
          plog.spawned[j].asp = plog.spawned[k].asp => j = k
    /\ Len(plog.sends) <= 1

\* C21 witness: the serialize, compress, encrypt and create-contract stages were
\* spawned, the leaf sent and exited, the three processes above it exited with 0, and
\* the original process alone returned to apb_execute, which has returned.
C21_Witness ==
    /\ ApbDone
    /\ plog.returned = {0}
    /\ Len(plog.spawned) = 4 /\ Len(plog.sends) = 1
    /\ \A p \in Procs \ {0} : pc[p] = "exited"
    /\ \A p \in {1, 2, 3} : plog.exits[p] = 0

\* C22 as stated: a remote-layered dispatch on a (variable, type) pair for which an
\* earlier remote-layered dispatch attached its payload issues no execute request,
\* calls no contract verification and returns 0, whatever the type.
C22_RedispatchNoOp ==
    (hist.d.active /\ hist.d.redo /\ RemoteLayered) =>
        /\ hist.d.calls = {}
        /\ pc[0] \in {"mv_remote_add", "mv_return"}
        /\ Returned => mv.rc = 0

\* C23 as stated: every index of create_con_args that is written is below the array's
\* declared length, and so is every index the spawn of the create-contract stage reads:
\* the argument count passed with the array does not exceed the length.
C23_CreateConArgsInBounds ==
    /\ \A k \in plog.cc_indices : k < CreateConArgsLen
    /\ \A k \in 1 .. Len(plog.spawned) :
          plog.spawned[k].asp = "create_measurement_contract_asp" =>
              plog.spawned[k].argc <= CreateConArgsLen

\* the port of a rendered endpoint: what follows "[", the address, "]" and ":"
PortOf(endpoint) == SubSeq(endpoint, 5, Len(endpoint))

\* C24 as stated: once chunk_line_data has rendered the local or the remote endpoint of
\* a line, its port is the decimal numeral of the value h in 0..65535 of the line's
\* four-digit hexadecimal port field.
C24_PortRendering ==
    /\ ns.ret.local_addr # <<>> =>
          PortOf(ns.ret.local_addr) = DecDigits(strtol(ns.line.local_port, 16))
    /\ ns.ret.rem_addr # <<>> =>
          PortOf(ns.ret.rem_addr) = DecDigits(strtol(ns.line.rem_port, 16))

====
